---- MODULE Spec2Model ----
(***************************************************************************)
(* A model of the Xonix simulation engine (src/src/app/xonix/xonix.ts):    *)
(* the cell grid and its claim flood fill, the level builder, the entity   *)
(* updates, the level's die/claim/win/lose reactions, the per-second timer *)
(* and the game's start/run/pause/stop scheduling.                         *)
(*                                                                         *)
(* Positions are integers: every position the sources set is an integer    *)
(* and speed * delta is 0 or 1, so Math.floor is the identity on them.     *)
(***************************************************************************)
EXTENDS Integers, Sequences, FiniteSets, TLC

\* ------------------------------------------------------------------ bounds
MaxW == 3
MaxH == 3
MaxCells == 4
MaxThickness == 2
MaxEnemies == 2
MaxTrail == 3
MaxTimeouts == 1
MaxSeconds == 2
MaxOverrun == 1
MaxWins == 2
MaxVoid == 1
MaxLives == 1
MaxFires == 4
MaxTimeUps == 2

\* --------------------------------------------------------------- CellState
OUT_OF_BOUNDS == 0
UNCLAIMED == 1
CLAIMED == 2
CLAIMING == 3

StoredStates == {UNCLAIMED, CLAIMED, CLAIMING}

VARIABLES
  field,     \* the XonixField under construction by the builder / under test
  fieldOp,   \* the last operation on it, with the field it started from
  game,      \* XonixGame: level, ctx, nextUpdate, paused, listening
  timeouts,  \* handles of the pending setTimeout(tick) calls
  intervals, \* the active setInterval callbacks of the timers
  levels,    \* the XonixLevel objects
  halted,    \* "stop" / "pause" since that call returned, "no" once run() is called
  obs,       \* what the last operation did
  clock      \* what has happened to a timer since the last call of its start()

fieldVars == <<field, fieldOp>>

gameVars == <<game, timeouts, intervals, levels, halted, obs>>

vars == <<field, fieldOp, game, timeouts, intervals, levels, halted, obs, clock>>

\* ------------------------------------------------------------- XonixField
\* A field is [width, height, cells, length, cellCount].  cells is the JS
\* array as a function on the indices that hold a value (an index written
\* outside 0..length-1 is kept, as JS keeps it); length is cells.length;
\* cellCount is the per-state counter array.  couldClaim is scratch storage
\* that claim() resets on entry, so it is local to Claim below.

EfficientIndex(f, x, y) == y * f.width + x

IsOut(f, x, y) == x < 0 \/ x >= f.width \/ y < 0 \/ y >= f.height

HasCell(f, i) == i \in DOMAIN f.cells

\* cells[i] = value; cellCount[prev]--, cellCount[value]++.  A hole has
\* prev = undefined, whose decrement touches no counter of a state.  A write
\* at i >= length grows the array; a write at i < 0 sets a property only.
SetCellDirect(f, value, i) ==
  LET c1 == IF HasCell(f, i)
            THEN [f.cellCount EXCEPT ![f.cells[i]] = @ - 1]
            ELSE f.cellCount
  IN [f EXCEPT
        !.cells = [j \in (DOMAIN f.cells) \cup {i} |-> IF j = i THEN value ELSE f.cells[j]],
        !.length = IF i >= f.length THEN i + 1 ELSE f.length,
        !.cellCount = [c1 EXCEPT ![value] = @ + 1]]

SetCellByXY(f, value, x, y) == SetCellDirect(f, value, EfficientIndex(f, x, y))

GetCell(f, x, y) ==
  IF IsOut(f, x, y) THEN OUT_OF_BOUNDS ELSE f.cells[EfficientIndex(f, x, y)]

\* The constructor: new Array(width * height), every cell set UNCLAIMED.
RECURSIVE FillUnclaimed(_, _)
FillUnclaimed(f, i) ==
  IF i >= f.length THEN f
  ELSE FillUnclaimed(SetCellDirect(f, UNCLAIMED, i), i + 1)

NewField(w, h) ==
  FillUnclaimed([width |-> w, height |-> h,
                 cells |-> [i \in {} |-> UNCLAIMED],
                 length |-> w * h,
                 cellCount |-> [s \in 0..3 |-> 0]], 0)

\* for (i < cells.length) if (cells[i] === from) setCellDirect(to, i)
RECURSIVE ReplaceAll(_, _, _, _)
ReplaceAll(f, from, to, i) ==
  IF i >= f.length THEN f
  ELSE ReplaceAll(IF HasCell(f, i) /\ f.cells[i] = from
                  THEN SetCellDirect(f, to, i) ELSE f,
                  from, to, i + 1)

ClearClaiming(f) == ReplaceAll(f, CLAIMING, UNCLAIMED, 0)

\* [num, den]: cellCount[CLAIMED] / cells.length, kept as the two operands
\* (den = 0 is JavaScript's NaN or Infinity).
ClaimedRatio(f) == [num |-> f.cellCount[CLAIMED], den |-> f.length]

\* ------------------------------------------------------- XonixField.claim
ShouldStopScan(f, cc, index) ==
  \/ (HasCell(f, index) /\ f.cells[index] = CLAIMED)
  \/ ~(index \in DOMAIN cc /\ cc[index])

\* for (; lx >= rowStart; lx--) { if (shouldStopScan(lx)) break; couldClaim[lx] = false }
\* returns <<couldClaim, lx>>
RECURSIVE ScanLeft(_, _, _, _)
ScanLeft(f, cc, lx, rowStart) ==
  IF lx < rowStart \/ ShouldStopScan(f, cc, lx) THEN <<cc, lx>>
  ELSE ScanLeft(f, [cc EXCEPT ![lx] = FALSE], lx - 1, rowStart)

RECURSIVE ScanRight(_, _, _, _)
ScanRight(f, cc, rx, rowEnd) ==
  IF rx > rowEnd \/ ShouldStopScan(f, cc, rx) THEN <<cc, rx>>
  ELSE ScanRight(f, [cc EXCEPT ![rx] = FALSE], rx + 1, rowEnd)

\* for (i = lx + 1; i < rx; i++) push i - w and i + w unless shouldStopScan
\* (variant that forgets the row below, used to test the claims)
RECURSIVE PushNeighboursAboveOnly(_, _, _, _, _)
PushNeighboursAboveOnly(f, cc, stack, i, rx) ==
  IF i >= rx THEN stack
  ELSE LET above == i - f.width
           s1 == IF ~ShouldStopScan(f, cc, above) THEN Append(stack, above) ELSE stack
       IN PushNeighboursAboveOnly(f, cc, s1, i + 1, rx)

RECURSIVE PushNeighbours(_, _, _, _, _)
PushNeighbours(f, cc, stack, i, rx) ==
  IF i >= rx THEN stack
  ELSE LET above == i - f.width
           below == i + f.width
           s1 == IF ~ShouldStopScan(f, cc, above) THEN Append(stack, above) ELSE stack
           s2 == IF ~ShouldStopScan(f, cc, below) THEN Append(s1, below) ELSE s1
       IN PushNeighbours(f, cc, s2, i + 1, rx)

\* while (stack.length) { ... }: returns couldClaim
RECURSIVE ScanLoop(_, _, _)
ScanLoop(f, cc, stack) ==
  IF stack = << >> THEN cc
  ELSE LET cellIndex == stack[Len(stack)]
           rest == SubSeq(stack, 1, Len(stack) - 1)
       IN IF ShouldStopScan(f, cc, cellIndex) THEN ScanLoop(f, cc, rest)
          ELSE LET y == cellIndex \div f.width
                   rowStart == EfficientIndex(f, 0, y)
                   rowEnd == EfficientIndex(f, f.width - 1, y)
                   l == ScanLeft(f, cc, cellIndex, rowStart)
                   r == ScanRight(f, l[1], cellIndex + 1, rowEnd)
               IN ScanLoop(f, r[1], PushNeighbours(f, r[1], rest, l[2] + 1, r[2]))

StartScan(f, cc, startX, startY) ==
  ScanLoop(f, cc, <<EfficientIndex(f, startX, startY)>>)

\* for (const enemy of enemies) startScan(enemy.position.x, enemy.position.y)
RECURSIVE ScanEnemies(_, _, _, _)
ScanEnemies(f, cc, enemies, k) ==
  IF k > Len(enemies) THEN cc
  ELSE ScanEnemies(f, StartScan(f, cc, enemies[k].x, enemies[k].y), enemies, k + 1)

\* for (i < couldClaim.length) if (couldClaim[i]) setCellDirect(CLAIMED, i)
RECURSIVE ClaimMarked(_, _, _)
ClaimMarked(f, cc, i) ==
  IF i >= f.width * f.height THEN f
  ELSE ClaimMarked(IF cc[i] THEN SetCellDirect(f, CLAIMED, i) ELSE f, cc, i + 1)

\* (variant that leaves the trail unsealed, used to test the claims)
SealTrailSkipped(f) == f

\* for (i < cells.length) if (cells[i] === CLAIMING) setCellDirect(CLAIMED, i)
SealTrail(f) == ReplaceAll(f, CLAIMING, CLAIMED, 0)

Claim(f, enemies) ==
  LET sealed == SealTrail(f)
      cc0 == [i \in 0..(f.width * f.height - 1) |-> TRUE]
      cc == ScanEnemies(sealed, cc0, enemies, 1)
  IN ClaimMarked(sealed, cc, 0)

\* ------------------------------------------- XonixLevelBuilder.claimBorder
\* The writes of the two loops, in the order the code makes them.
BorderWritesX(f, t) ==
  [k \in 1..(2 * t * f.width) |->
     LET x == (k - 1) \div (2 * t)
         i == ((k - 1) % (2 * t)) \div 2
     IN IF (k - 1) % 2 = 0 THEN <<x, i>> ELSE <<x, f.height - i - 1>>]

BorderWritesY(f, t) ==
  [k \in 1..(2 * t * f.height) |->
     LET y == (k - 1) \div (2 * t)
         i == ((k - 1) % (2 * t)) \div 2
     IN IF (k - 1) % 2 = 0 THEN <<i, y>> ELSE <<f.width - i - 1, y>>]

RECURSIVE ApplyWrites(_, _, _, _)
ApplyWrites(f, value, writes, k) ==
  IF k > Len(writes) THEN f
  ELSE ApplyWrites(SetCellByXY(f, value, writes[k][1], writes[k][2]), value, writes, k + 1)

ClaimBorder(f, t) ==
  ApplyWrites(f, CLAIMED, BorderWritesX(f, t) \o BorderWritesY(f, t), 1)

\* ================================================================ the game
\* The world the operations below act on is the record
\*   [game, timeouts, intervals, levels, obs]
\* game      XonixGame: level (a key of levels), ctx (attached or not),
\*           nextUpdate (a timeout handle, 0 = undefined), paused, listening
\* timeouts  the handles of the pending setTimeout(tick) calls
\* intervals the active setInterval callbacks of the timers, each with the
\*           level whose timer made it and the `countdown` it closed over
\* levels    the XonixLevel objects: 0 is the level XonixLevel.empty() made
\*           last, 1 and 2 are levels the builder made
\* obs       what the last operation did (notifications, die() calls, ticks)

\* ------------------------------------------------------------ constructors
NewPlayer ==
  [kind |-> "player", x |-> 0, y |-> 0, dx |-> 0, dy |-> 0, speed |-> 0,
   lives |-> 0, claiming |-> FALSE]

\* addEnemy / addDestroyer: direction (1, 1), speed 1
NewEnemy(kind, x, y) ==
  [kind |-> kind, x |-> x, y |-> y, dx |-> 1, dy |-> 1, speed |-> 1]

NewTimer == [seconds |-> 0, interval |-> 0, paused |-> FALSE]

NoSubscribers == [win |-> "none", die |-> "none", lose |-> "none"]

\* new XonixLevel(field, enemies, player): claimRatioWin = 0.8 (as 4 / 5),
\* countdownTime undefined (0), a new timer.  `subs` is what the subscribers
\* of onWin / onDie / onLose do, `events` counts the notifications sent.
NewLevel(f, enemies, player) ==
  [field |-> f, enemies |-> enemies, player |-> player,
   defaultPlayerPosition |-> [x |-> 0, y |-> 0],
   claimRatioWin |-> [num |-> 4, den |-> 5],
   countdownTime |-> 0,
   timer |-> NewTimer,
   subs |-> NoSubscribers,
   events |-> [win |-> 0, die |-> 0, lose |-> 0, timeUp |-> 0],
   started |-> FALSE]

\* XonixLevel.empty()
EmptyLevel == NewLevel(NewField(0, 0), << >>, NewPlayer)

\* builder: resize, claimBorder, setDefaultPlayerPosition, addEnemy /
\* addDestroyer, build(); then the caller's countdownTime, lives and
\* subscriptions.
BuildLevel(c) ==
  LET f == ClaimBorder(NewField(c.width, c.height), c.border)
      p == [NewPlayer EXCEPT !.x = c.spawn.x, !.y = c.spawn.y, !.lives = c.lives]
      l == NewLevel(f, c.enemies, p)
  IN [l EXCEPT !.defaultPlayerPosition = c.spawn,
               !.countdownTime = c.countdownTime,
               !.subs = c.subs]

\* ---------------------------------------------------------------- entities
\* An entity is named by [lvl, k]: k = 1 is the level's player, k > 1 its
\* enemy k - 1 (the order of XonixLevel.entities).
EntityCount(lv) == Len(lv.enemies) + 1

EntityAt(lv, k) == IF k = 1 THEN lv.player ELSE lv.enemies[k - 1]

GetEntity(w, ref) == EntityAt(w.levels[ref.lvl], ref.k)

SetEntity(w, ref, e) ==
  IF ref.k = 1 THEN [w EXCEPT !.levels[ref.lvl].player = e]
  ELSE [w EXCEPT !.levels[ref.lvl].enemies[ref.k - 1] = e]

MinOf(S) == CHOOSE m \in S : \A n \in S : m <= n

\* level.entities.find(entity => !entity.position.differRounded(x, y)):
\* the first entity on the cell, 0 if none
FindEntity(lv, x, y) ==
  LET hits == {k \in 1..EntityCount(lv) : EntityAt(lv, k).x = x /\ EntityAt(lv, k).y = y}
  IN IF hits = {} THEN 0 ELSE MinOf(hits)

NoCollision ==
  [kind |-> "none", x |-> 0, y |-> 0, currentCellState |-> OUT_OF_BOUNDS,
   collidedCellState |-> OUT_OF_BOUNDS, collidedEntity |-> 0]

\* The three candidates in the order of checkCollisions.
Candidates(currX, currY, nextX, nextY) ==
  <<[x |-> nextX, y |-> currY], [x |-> currX, y |-> nextY], [x |-> nextX, y |-> nextY]>>

\* checkCollisions with the cell provider: the first candidate whose cell
\* state differs from the current cell's
CellCollision(lv, currCell, cands) ==
  LET ks == {k \in 1..3 : GetCell(lv.field, cands[k].x, cands[k].y) # currCell}
  IN IF ks = {} THEN NoCollision
     ELSE LET c == cands[MinOf(ks)]
          IN [kind |-> "cell", x |-> c.x, y |-> c.y, currentCellState |-> currCell,
              collidedCellState |-> GetCell(lv.field, c.x, c.y), collidedEntity |-> 0]

\* checkCollisions with the entity provider: the first candidate that holds
\* an entity (the first one found there) other than `self`
EntityCollision(lv, target, self, currCell, cands) ==
  LET other(k) == FindEntity(lv, cands[k].x, cands[k].y)
      ks == {k \in 1..3 : other(k) # 0 /\ ~(target = self.lvl /\ other(k) = self.k)}
  IN IF ks = {} THEN NoCollision
     ELSE LET c == cands[MinOf(ks)]
          IN [kind |-> "entity", x |-> c.x, y |-> c.y, currentCellState |-> currCell,
              collidedCellState |-> OUT_OF_BOUNDS, collidedEntity |-> other(MinOf(ks))]

\* Entity.checkCollision: all three cells first, then all three entities
CheckCollision(lv, target, self, currX, currY, nextX, nextY) ==
  LET currCell == GetCell(lv.field, currX, currY)
      cands == Candidates(currX, currY, nextX, nextY)
      cell == CellCollision(lv, currCell, cands)
  IN IF cell.kind # "none" THEN cell
     ELSE EntityCollision(lv, target, self, currCell, cands)

\* ------------------------------------------------------------------ timer
FreshHandle(used) == MinOf({i \in 1..(Cardinality(used) + 1) : i \notin used})

\* XonixTimer.stop: seconds = 0; clearInterval(this.interval)
TimerStop(w, l) ==
  [w EXCEPT !.levels[l].timer.seconds = 0,
            !.intervals = {iv \in w.intervals : iv.id # w.levels[l].timer.interval}]

\* XonixTimer.pause / resume
TimerPause(w, l) == [w EXCEPT !.levels[l].timer.paused = TRUE]

TimerResume(w, l) == [w EXCEPT !.levels[l].timer.paused = FALSE]

\* XonixTimer.start(countdown, startSeconds)
TimerStart(w, l, countdown, startSeconds) ==
  IF w.levels[l].timer.paused THEN TimerResume(w, l)
  ELSE LET w1 == TimerStop(w, l)
           id == FreshHandle({iv.id : iv \in w1.intervals}
                             \cup {w1.levels[k].timer.interval : k \in DOMAIN w1.levels})
       IN [w1 EXCEPT !.levels[l].timer.seconds = startSeconds,
                     !.levels[l].timer.interval = id,
                     !.intervals = @ \cup {[id |-> id, lvl |-> l, countdown |-> countdown]}]

\* XonixTimer.toString: the milliseconds handed to formatDate(..., "mm:ss")
TimerToString(t) == (IF t.seconds > 0 THEN t.seconds ELSE 0) * 1000

\* ------------------------------------------------------------- XonixGame
IsRunning(w) == w.game.nextUpdate # 0

IsPaused(w) == w.game.paused

IsStopped(w) == ~IsRunning(w) /\ ~IsPaused(w)

\* clearTimeout(this.nextUpdate); this.nextUpdate = undefined
ClearNextUpdate(w) ==
  [w EXCEPT !.timeouts = @ \ {w.game.nextUpdate}, !.game.nextUpdate = 0]

\* XonixGame.pause
GamePause(w) ==
  LET w1 == ClearNextUpdate(TimerPause(w, w.game.level))
  IN [w1 EXCEPT !.game.paused = TRUE, !.halted = "pause"]

\* XonixGame.stop: the level becomes a new XonixLevel.empty()
GameStop(w) ==
  LET w1 == ClearNextUpdate(TimerStop(w, w.game.level))
  IN [w1 EXCEPT !.levels[0] = EmptyLevel, !.game.level = 0, !.halted = "stop"]

\* this.nextUpdate = setTimeout(tick, this.updateInterval)
ScheduleNext(w) ==
  LET id == FreshHandle(w.timeouts \cup {w.game.nextUpdate})
  IN [w EXCEPT !.timeouts = @ \cup {id}, !.game.nextUpdate = id]

\* ---------------------------------------------------------- notifications
\* subject.next(): the notification is counted, then the subscriber runs.
\* A subscriber does nothing, or calls game.stop(), game.pause() or
\* game.start(level 2).
RECURSIVE Notify(_, _, _)

\* XonixLevel.win / lose
Win(w, l) == Notify(w, l, "win")

Lose(w, l) == Notify(w, l, "lose")

\* XonixLevel.die, statement by statement: this.player.lives--
DieLife(w, l) == [w EXCEPT !.levels[l].player.lives = @ - 1]

\* (variant that leaves the trail on the field, used to test the claims)
DieResetKeepsTrail(w, l) ==
  [w EXCEPT !.levels[l].player.speed = 0,
            !.levels[l].player.x = w.levels[l].defaultPlayerPosition.x,
            !.levels[l].player.y = w.levels[l].defaultPlayerPosition.y]

\* speed = 0; position.set(defaultPlayerPosition); field.clearClaiming()
DieReset(w, l) ==
  [w EXCEPT !.levels[l].player.speed = 0,
            !.levels[l].player.x = w.levels[l].defaultPlayerPosition.x,
            !.levels[l].player.y = w.levels[l].defaultPlayerPosition.y,
            !.levels[l].field = ClearClaiming(@)]

\* if (this.player.lives < 0) this.lose()
DieLose(w, l) == IF w.levels[l].player.lives < 0 THEN Lose(w, l) ELSE w

\* (the same at zero lives, used to test the claims)
DieLoseZero(w, l) == IF w.levels[l].player.lives <= 0 THEN Lose(w, l) ELSE w

\* The call is observed: the level before it and after it.
DieEnd(w, l, before) ==
  [w EXCEPT !.obs.dies = Append(@, [lvl |-> l, before |-> before, after |-> w.levels[l]])]

\* (variant that notifies a loss at zero lives, used to test the claims)
DieLoseAtZero(w, l) ==
  DieEnd(DieLoseZero(DieReset(Notify(DieLife(w, l), l, "die"), l), l), l, w.levels[l])

\* XonixLevel.die
Die(w, l) ==
  DieEnd(DieLose(DieReset(Notify(DieLife(w, l), l, "die"), l), l), l, w.levels[l])

\* claimRatio > this.claimRatioWin (NaN compares false)
RatioExceeds(r, limit) == r.den > 0 /\ r.num * limit.den > limit.num * r.den

\* (variant that wins on every claim, used to test the claims)
LevelClaimWinAlways(w, l) == Win(w, l)

\* XonixLevel.claim: if (claimRatio > this.claimRatioWin) this.win()
LevelClaimWin(w, l) ==
  IF RatioExceeds(ClaimedRatio(w.levels[l].field), w.levels[l].claimRatioWin)
  THEN Win(w, l) ELSE w

\* The call is observed: the level before it and after it.
ClaimEnd(w, l, before) ==
  [w EXCEPT !.obs.claims = Append(@, [lvl |-> l, before |-> before, after |-> w.levels[l]])]

\* XonixLevel.claim
LevelClaim(w, l) ==
  ClaimEnd(LevelClaimWin([w EXCEPT !.levels[l].field = Claim(@, w.levels[l].enemies)], l),
           l, w.levels[l])

\* ------------------------------------------------------------ onCollision
\* this.claiming = false
StopClaiming(w, ref) ==
  SetEntity(w, ref, [GetEntity(w, ref) EXCEPT !.claiming = FALSE])

\* (variant that leaves the vacated cell out of the trail, used to test the
\* claims)
PlayerOnCollisionOpenEnd(w, ref, t, c) ==
  LET e == GetEntity(w, ref)
  IN IF c.kind # "cell" THEN w
     ELSE IF c.collidedCellState = OUT_OF_BOUNDS
       THEN SetEntity(w, ref, [e EXCEPT !.speed = 0])
     ELSE IF c.collidedCellState = UNCLAIMED
       THEN SetEntity(w, ref, [e EXCEPT !.x = c.x, !.y = c.y, !.claiming = TRUE])
     ELSE IF c.collidedCellState = CLAIMED
       THEN StopClaiming(
              LevelClaim(SetEntity(w, ref, [e EXCEPT !.x = c.x, !.y = c.y]), t), ref)
     ELSE Die(StopClaiming(w, ref), t)

\* Player.onCollision
PlayerOnCollision(w, ref, t, c) ==
  LET e == GetEntity(w, ref)
  IN IF c.kind # "cell" THEN w
     ELSE IF c.collidedCellState = OUT_OF_BOUNDS
       THEN SetEntity(w, ref, [e EXCEPT !.speed = 0])
     ELSE IF c.collidedCellState = UNCLAIMED
       THEN SetEntity(w, ref, [e EXCEPT !.x = c.x, !.y = c.y, !.claiming = TRUE])
     ELSE IF c.collidedCellState = CLAIMED
       THEN StopClaiming(
              LevelClaim(
                SetEntity([w EXCEPT !.levels[t].field = SetCellByXY(@, CLAIMING, e.x, e.y)],
                          ref, [e EXCEPT !.x = c.x, !.y = c.y]),
                t),
              ref)
     ELSE Die(StopClaiming(w, ref), t)

\* (variant that reverses both components on every collision, used to test
\* the claims)
BounceBoth(w, ref, c) ==
  LET e == GetEntity(w, ref)
  IN SetEntity(w, ref, [e EXCEPT !.dx = -e.dx, !.dy = -e.dy])

\* Enemy.onCollision: the bounce
Bounce(w, ref, c) ==
  LET e == GetEntity(w, ref)
      notVerticalCollide == c.x # e.x
      notHorizontalCollide == c.y # e.y
  IN SetEntity(w, ref, [e EXCEPT
                !.dx = IF notVerticalCollide THEN -e.dx ELSE e.dx,
                !.dy = IF notHorizontalCollide THEN -e.dy ELSE e.dy])

\* Enemy.onCollision
EnemyOnCollision(w, ref, t, c) ==
  LET playerCollided == c.kind = "entity" /\ c.collidedEntity = 1
  IN IF (c.kind = "cell" /\ c.collidedCellState = CLAIMING) \/ playerCollided
     THEN Die(Bounce(w, ref, c), t) ELSE Bounce(w, ref, c)

\* (variant that reverts the cell left of the one hit, used to test the
\* claims)
DestroyBeside(w, t, c) ==
  IF c.kind = "cell" /\ c.collidedCellState = CLAIMED
  THEN [w EXCEPT !.levels[t].field = SetCellByXY(@, UNCLAIMED, c.x - 1, c.y)]
  ELSE w

\* Destroyer.onCollision: after super.onCollision, the Claimed cell it hit
Destroy(w, t, c) ==
  IF c.kind = "cell" /\ c.collidedCellState = CLAIMED
  THEN [w EXCEPT !.levels[t].field = SetCellByXY(@, UNCLAIMED, c.x, c.y)]
  ELSE w

\* Destroyer.onCollision
DestroyerOnCollision(w, ref, t, c) == Destroy(EnemyOnCollision(w, ref, t, c), t, c)

OnCollision(w, ref, t, c) ==
  LET kind == GetEntity(w, ref).kind
  IN IF kind = "player" THEN PlayerOnCollision(w, ref, t, c)
     ELSE IF kind = "destroyer" THEN DestroyerOnCollision(w, ref, t, c)
     ELSE EnemyOnCollision(w, ref, t, c)

\* ----------------------------------------------------------------- update
\* (variant that moves whatever the collision, used to test the claims)
ResolveThrough(w, ref, t, nextX, nextY, c) ==
  SetEntity(w, ref, [GetEntity(w, ref) EXCEPT !.x = nextX, !.y = nextY])

\* Entity.update: onCollision for a collision, else the move
Resolve(w, ref, t, nextX, nextY, c) ==
  IF c.kind # "none" THEN OnCollision(w, ref, t, c)
  ELSE SetEntity(w, ref, [GetEntity(w, ref) EXCEPT !.x = nextX, !.y = nextY])

\* Entity.update(delta = 1, level t)
EntityUpdate(w, ref, t) ==
  LET e == GetEntity(w, ref)
      deltaSpeed == e.speed * 1
      nextX == e.x + e.dx * deltaSpeed
      nextY == e.y + e.dy * deltaSpeed
  IN Resolve(w, ref, t, nextX, nextY,
             CheckCollision(w.levels[t], t, ref, e.x, e.y, nextX, nextY))

\* Player.update: the trail behind the player
Trail(w, ref, t, prevX, prevY) ==
  LET e == GetEntity(w, ref)
  IN IF /\ e.claiming
        /\ (e.x # prevX \/ e.y # prevY)
        /\ GetCell(w.levels[t].field, prevX, prevY) # CLAIMED
     THEN [w EXCEPT !.levels[t].field = SetCellByXY(@, CLAIMING, prevX, prevY)]
     ELSE w

\* Player.update: the base update, then the trail
PlayerUpdate(w, ref, t) ==
  Trail(EntityUpdate(w, ref, t), ref, t, GetEntity(w, ref).x, GetEntity(w, ref).y)

\* this.checkCollision(level, ...) of Entity.update, for the entity `ref`
\* and the level t
Probe(w, ref, t) ==
  LET e == GetEntity(w, ref)
      deltaSpeed == e.speed * 1
  IN CheckCollision(w.levels[t], t, ref, e.x, e.y,
                    e.x + e.dx * deltaSpeed, e.y + e.dy * deltaSpeed)

\* The update is observed: the entity, the level it was updated against and
\* the collision it found, before (in world w0) and after.
Updated(w, w0, ref, t) ==
  [w EXCEPT !.obs.updates =
     Append(@, [ref |-> ref, target |-> t, c |-> Probe(w0, ref, t),
                self |-> GetEntity(w0, ref), selfAfter |-> GetEntity(w, ref),
                before |-> w0.levels[t], after |-> w.levels[t]])]

\* this.level.entities.forEach(entity => entity.update(delta, this.level)):
\* the entities are those of the level at the start of the tick; this.level
\* is read again for every entity.
RECURSIVE UpdateEach(_, _, _)
UpdateEach(w, lvl, k) ==
  IF k > EntityCount(w.levels[lvl]) THEN w
  ELSE UpdateEach(Updated(IF k = 1
                            THEN PlayerUpdate(w, [lvl |-> lvl, k |-> k], w.game.level)
                            ELSE EntityUpdate(w, [lvl |-> lvl, k |-> k], w.game.level),
                          w, [lvl |-> lvl, k |-> k], w.game.level),
                  lvl, k + 1)

GameUpdate(w) == UpdateEach(w, w.game.level, 1)

\* The tick is observed: that it ran, after stop() or pause(), without a ctx.
Ticked(w) ==
  [w EXCEPT !.obs.ticks = @ + 1,
            !.obs.tickWhileHalted = @ \/ w.halted # "no",
            !.obs.silentTick = @ \/ ~w.game.ctx]

\* XonixGame.tick: nothing happens without a ctx (drawing changes no state)
GameTick(w) == IF w.game.ctx THEN GameUpdate(Ticked(w)) ELSE Ticked(w)

\* The closure `tick` of run(): try { this.tick() } finally { reschedule }
TickClosure(w) == ScheduleNext(GameTick(w))

\* XonixGame.run
GameRun(w) == TickClosure([w EXCEPT !.game.paused = FALSE, !.halted = "no"])

\* XonixGame.start: if (!this.isStopped()) this.stop(); this.level = level
Enter(w, l) ==
  [(IF ~IsStopped(w) THEN GameStop(w) ELSE w)
     EXCEPT !.game.level = l, !.levels[l].started = TRUE]

\* XonixGame.start: setup() throws without a ctx; else the listeners, the
\* level's timer and run()
Setup(w, l) ==
  IF ~w.game.ctx THEN [w EXCEPT !.obs.fatal = TRUE]
  ELSE GameRun(TimerStart([w EXCEPT !.game.listening = TRUE], l,
                          w.levels[l].countdownTime # 0, w.levels[l].countdownTime))

\* XonixGame.start(level l)
GameStart(w, l) == Setup(Enter(w, l), l)

\* What the subscriber of the event does
Handle(w, l, ev) ==
  LET does == w.levels[l].subs[ev]
  IN IF does = "stop" THEN GameStop(w)
     ELSE IF does = "pause" THEN GamePause(w)
     ELSE IF does = "start" /\ ~w.levels[2].started
       THEN GameStart(w, 2)
     ELSE w

\* The delivery is observed: the level as the subscriber finds it.
Delivered(w, l, ev) ==
  [w EXCEPT !.obs.notes = Append(@, [lvl |-> l, ev |-> ev, level |-> w.levels[l]])]

Notify(w, l, ev) ==
  Handle(Delivered([w EXCEPT !.levels[l].events[ev] = @ + 1], l, ev), l, ev)

\* --------------------------------------------------- the timer's interval
\* this.seconds += increment
Advance(w, iv) ==
  [w EXCEPT !.levels[iv.lvl].timer.seconds = @ + (IF iv.countdown THEN -1 ELSE 1)]

\* The time-up is observed: the level before it and after it.
TimeUpEnd(w, l, before) ==
  [w EXCEPT !.obs.timeUps = Append(@, [lvl |-> l, before |-> before, after |-> w.levels[l]])]

\* this._onTimeUp.next() (the level's constructor subscribed lose() to it);
\* this.pause()
TimeUp(w, l) ==
  TimeUpEnd(TimerPause(Lose([w EXCEPT !.levels[l].events.timeUp = @ + 1], l), l),
            l, w.levels[l])

\* (variant whose time-up costs a life, used to test the claims)
TimeUpDies(w, l) ==
  TimeUpEnd(TimerPause(Die([w EXCEPT !.levels[l].events.timeUp = @ + 1], l), l),
            l, w.levels[l])

\* if (countdown && this.seconds < 0)
CheckTimeUp(w, iv) ==
  IF iv.countdown /\ w.levels[iv.lvl].timer.seconds < 0 THEN TimeUp(w, iv.lvl) ELSE w

\* (variant whose countdown is up on reaching zero, used to test the claims)
IntervalCallbackAtZero(w, iv) ==
  IF w.levels[iv.lvl].timer.paused THEN w
  ELSE IF iv.countdown /\ Advance(w, iv).levels[iv.lvl].timer.seconds <= 0
    THEN TimeUp(Advance(w, iv), iv.lvl)
  ELSE Advance(w, iv)

\* (variant whose time-up costs a life, used to test the claims)
IntervalCallbackDies(w, iv) ==
  IF w.levels[iv.lvl].timer.paused THEN w
  ELSE IF iv.countdown /\ Advance(w, iv).levels[iv.lvl].timer.seconds < 0
    THEN TimeUpDies(Advance(w, iv), iv.lvl)
  ELSE Advance(w, iv)

\* The setInterval callback of XonixTimer.start
IntervalCallback(w, iv) ==
  IF w.levels[iv.lvl].timer.paused THEN w ELSE CheckTimeUp(Advance(w, iv), iv)

\* ------------------------------------------------------------ the actions
NoObs ==
  [updates |-> << >>, notes |-> << >>, claims |-> << >>, dies |-> << >>, timeUps |-> << >>, ticks |-> 0,
   tickWhileHalted |-> FALSE, silentTick |-> FALSE, fatal |-> FALSE]

\* No start() of the timer has been followed yet.
NoClock ==
  [countdown |-> FALSE, startSeconds |-> 0, fires |-> 0, timeUps |-> 0,
   caller |-> FALSE, pausedBy |-> "none", wasPaused |-> "no",
   last |-> "none", before |-> [paused |-> FALSE, seconds |-> 0, schedules |-> {}]]

World ==
  [game |-> game, timeouts |-> timeouts, intervals |-> intervals,
   levels |-> levels, halted |-> halted, obs |-> NoObs]

Becomes(w) ==
  /\ game' = w.game
  /\ timeouts' = w.timeouts
  /\ intervals' = w.intervals
  /\ levels' = w.levels
  /\ halted' = w.halted
  /\ obs' = w.obs

\* new XonixGame(): the empty level, no ctx, nothing scheduled
NewGame ==
  [level |-> 0, ctx |-> FALSE, nextUpdate |-> 0, paused |-> FALSE, listening |-> FALSE]

\* The game before any level is built (the state the field specification
\* keeps it in).
GameIdle ==
  /\ game = NewGame
  /\ timeouts = {}
  /\ intervals = {}
  /\ levels = [l \in {0} |-> EmptyLevel]
  /\ halted = "no"
  /\ obs = NoObs
  /\ clock = NoClock

\* The model stops driving ticks once the level's player has died MaxOverrun
\* times after its lives ran out, has won MaxWins times, or has walked
\* MaxVoid cells off the grid.
TickAllowed ==
  LET lv == levels[game.level]
  IN /\ lv.player.lives >= -MaxOverrun
     /\ lv.events.win < MaxWins
     /\ lv.player.x \in (-MaxVoid)..(lv.field.width + MaxVoid)
     /\ lv.player.y \in (-MaxVoid)..(lv.field.height + MaxVoid)

\* game.ctx = canvas.getContext("2d") / game.ctx = undefined
AttachCtx ==
  /\ ~game.ctx
  /\ Becomes([World EXCEPT !.game.ctx = TRUE])

DetachCtx ==
  /\ game.ctx
  /\ Becomes([World EXCEPT !.game.ctx = FALSE])

\* game.start(level) with a level the builder made and nobody started yet
Start ==
  /\ ~levels[1].started
  /\ Becomes(GameStart(World, 1))

\* game.run(), game.pause(), game.stop() called from outside a tick
Run ==
  /\ Cardinality(timeouts) < MaxTimeouts
  /\ TickAllowed
  /\ Becomes(GameRun(World))

Pause == Becomes(GamePause(World))

Stop == Becomes(GameStop(World))

\* A pending timeout fires: the closure `tick` of run()
TimeoutFire ==
  \E id \in timeouts :
    /\ TickAllowed
    /\ Becomes(TickClosure([World EXCEPT !.timeouts = @ \ {id}]))

\* An active interval fires: the callback of XonixTimer.start
IntervalFire ==
  \E iv \in intervals :
    /\ iv.countdown \/ levels[iv.lvl].timer.seconds < MaxSeconds
    /\ Becomes(IntervalCallback(World, iv))

\* A keydown listener of setupListeners fires for one of the arrow keys
ArrowLeft == <<-1, 0>>

ArrowRight == <<1, 0>>

ArrowUp == <<0, -1>>

ArrowDown == <<0, 1>>

KeyPress(keys) ==
  \E d \in keys :
    /\ game.listening
    /\ Becomes([World EXCEPT !.levels[game.level].player.dx = d[1],
                             !.levels[game.level].player.dy = d[2],
                             !.levels[game.level].player.speed = 1])

KeyDown == KeyPress({ArrowLeft, ArrowRight, ArrowUp, ArrowDown})

\* (the same listener, with the player only ever pressing ArrowDown)
KeyDownOnly == KeyPress({ArrowDown})

\* ================================================================ SpecField
\* The field on its own: the builder's resize and claimBorder, the cell
\* writes the entities make, claim(enemies) and clearClaiming().

NoField == NewField(0, 0)

Op(name, pre, enemies, t) ==
  [op |-> name, pre |-> pre, enemies |-> enemies, thickness |-> t]

Small(f) == f.width * f.height <= MaxCells

Shapes == {wh \in (0..MaxW) \X (0..MaxH) : wh[1] * wh[2] <= MaxCells}

GridPositions(f) ==
  {p \in [x : 0..(f.width - 1), y : 0..(f.height - 1)] : TRUE}

\* Lists of up to n enemies standing on cells of the grid.
EnemyLists(f, n) ==
  UNION {[1..k -> GridPositions(f)] : k \in 0..n}

CountOf(f, s) == Cardinality({i \in DOMAIN f.cells : f.cells[i] = s})

\* builder.resize(w, h)
FieldNew ==
  \E wh \in Shapes :
    /\ field' = NewField(wh[1], wh[2])
    /\ fieldOp' = Op("new", NoField, << >>, 0)

\* The level of the spec's scenarios, as the application's builder callback
\* makes its own: resize(5, 5) then claimBorder(1).
FieldScenario ==
  /\ field' = ClaimBorder(NewField(5, 5), 1)
  /\ fieldOp' = Op("scenario", NoField, << >>, 1)

\* builder.claimBorder(t)
FieldClaimBorder ==
  \E t \in 0..MaxThickness :
    /\ Small(field)
    /\ field' = ClaimBorder(field, t)
    /\ fieldOp' = Op("border", field, << >>, t)

\* The cell writes of the entities: the player marks a cell that is not
\* Claimed as CLAIMING, a destroyer turns a Claimed cell UNCLAIMED.  On the
\* scenario grid only a trail of up to MaxTrail cells is drawn.
FieldSetCell ==
  \E p \in GridPositions(field), v \in {CLAIMING, UNCLAIMED} :
    /\ \/ v = CLAIMING /\ GetCell(field, p.x, p.y) = UNCLAIMED
       \/ v = UNCLAIMED /\ GetCell(field, p.x, p.y) = CLAIMED /\ Small(field)
    /\ Small(field) \/ (fieldOp.op # "claim" /\ CountOf(field, CLAIMING) < MaxTrail)
    /\ field' = SetCellByXY(field, v, p.x, p.y)
    /\ fieldOp' = Op("set", NoField, << >>, 0)

\* field.claim(enemies)
FieldClaim ==
  \E es \in EnemyLists(field, IF Small(field) THEN MaxEnemies ELSE 1) :
    /\ fieldOp.op # "claim"
    /\ field' = Claim(field, es)
    /\ fieldOp' = Op("claim", field, es, 0)

\* field.clearClaiming()
FieldClearClaiming ==
  /\ CountOf(field, CLAIMING) > 0
  /\ field' = ClearClaiming(field)
  /\ fieldOp' = Op("clear", NoField, << >>, 0)

FieldInit ==
  /\ field = NewField(0, 0)
  /\ fieldOp = Op("new", NoField, << >>, 0)
  /\ GameIdle

FieldNext ==
  /\ \/ FieldNew
     \/ FieldScenario
     \/ FieldClaimBorder
     \/ FieldSetCell
     \/ FieldClaim
     \/ FieldClearClaiming
  /\ UNCHANGED gameVars
  /\ UNCHANGED clock

SpecField == FieldInit /\ [][FieldNext]_vars

\* ==================================================================== Spec
\* ------------------------------------------------------------- the levels
\* The application's level (part_001: resize, claimBorder, one spawn on the
\* border, enemies and a destroyer inside, a countdown) scaled down to a
\* 4 x 4 grid with a border of 1: the interior is the 2 x 2 block (1..2, 1..2).
LevelConfig(enemies, lives, countdownTime, subs) ==
  [width |-> 4, height |-> 4, border |-> 1, spawn |-> [x |-> 1, y |-> 0],
   enemies |-> enemies, lives |-> lives, countdownTime |-> countdownTime,
   subs |-> subs]

Subs(win, die, lose) == [win |-> win, die |-> die, lose |-> lose]

\* Levels to play: no countdown, nobody subscribed.
PlayConfigs ==
  {LevelConfig(<<NewEnemy("enemy", 1, 1)>>, lives, 0, NoSubscribers) : lives \in 0..MaxLives}

\* Levels to play against the clock, and the same level without a countdown.
CountdownConfigs ==
  {LevelConfig(<<NewEnemy("enemy", 1, 1)>>, 0, countdownTime, NoSubscribers) :
     countdownTime \in {0, MaxSeconds}}

SecondLevel == LevelConfig(<<NewEnemy("enemy", 2, 1)>>, 0, 0, NoSubscribers)

GameInit(configs) ==
  /\ field = NewField(0, 0)
  /\ fieldOp = Op("new", NoField, << >>, 0)
  /\ game = NewGame
  /\ timeouts = {}
  /\ intervals = {}
  /\ \E c \in configs :
       levels = (0 :> EmptyLevel) @@ (1 :> BuildLevel(c)) @@ (2 :> BuildLevel(SecondLevel))
  /\ halted = "no"
  /\ obs = NoObs
  /\ clock = NoClock

\* The lifecycle: every operation of the game, the player pressing ArrowDown,
\* on a level with the default 0 lives and no countdown: as built, or with
\* a subscriber that pauses the game when the player dies, stops it when the
\* level is lost, or starts the next level when it is won.
LifeConfigs ==
  {LevelConfig(<<NewEnemy("enemy", 1, 1)>>, 0, 0, subs) :
     subs \in {NoSubscribers,
               Subs("none", "pause", "none"),
               Subs("none", "none", "stop"),
               Subs("start", "none", "none")}}

Init == GameInit(LifeConfigs)

Next ==
  /\ \/ AttachCtx
     \/ DetachCtx
     \/ Start
     \/ Run
     \/ Pause
     \/ Stop
     \/ TimeoutFire
     \/ IntervalFire
     \/ KeyDownOnly
  /\ UNCHANGED fieldVars
  /\ UNCHANGED clock

Spec == Init /\ [][Next]_vars

\* ================================================================ SpecPlay
\* The play of one level: the game is created, given its ctx and started
\* (the application's bootstrap); then ticks and arrow keys only.
Began(w) ==
  /\ game = w.game
  /\ timeouts = w.timeouts
  /\ intervals = w.intervals
  /\ levels = w.levels
  /\ halted = w.halted
  /\ obs = NoObs
  /\ clock = NoClock

Playing(configs) ==
  /\ field = NewField(0, 0)
  /\ fieldOp = Op("new", NoField, << >>, 0)
  /\ \E c \in configs :
       Began(GameStart([game |-> [NewGame EXCEPT !.ctx = TRUE],
                        timeouts |-> {}, intervals |-> {},
                        levels |-> (0 :> EmptyLevel) @@ (1 :> BuildLevel(c))
                                     @@ (2 :> BuildLevel(SecondLevel)),
                        halted |-> "no", obs |-> NoObs], 1))

PlayInit == Playing(PlayConfigs)

PlayNext ==
  /\ \/ TimeoutFire
     \/ KeyDown
  /\ UNCHANGED fieldVars
  /\ UNCHANGED clock

SpecPlay == PlayInit /\ [][PlayNext]_vars

\* ============================================================ SpecCountdown
\* The play of one level against the clock: ticks, the seconds of the
\* level's timer, and the player pressing ArrowDown.
CountdownInit == Playing(CountdownConfigs)

CountdownNext ==
  /\ \/ TimeoutFire
     \/ IntervalFire
     \/ KeyDownOnly
  /\ UNCHANGED fieldVars
  /\ UNCHANGED clock

SpecCountdown == CountdownInit /\ [][CountdownNext]_vars

\* The same levels, started, with the caller pausing the game and calling
\* run() again while the ticks and the timer's seconds go on.
ResumeInit == Playing(CountdownConfigs)

ResumeNext ==
  /\ \/ Pause
     \/ Run
     \/ TimeoutFire
     \/ IntervalFire
  /\ UNCHANGED fieldVars
  /\ UNCHANGED clock

SpecResume == ResumeInit /\ [][ResumeNext]_vars

\* ============================================================ SpecDestroyer
\* The play of one level whose enemy is a destroyer: ticks, and the player
\* pressing ArrowDown.
DestroyerConfigs ==
  {LevelConfig(enemies, lives, 0, NoSubscribers) :
     enemies \in {<<NewEnemy("destroyer", 1, 1)>>,
                  <<NewEnemy("destroyer", 1, 1), NewEnemy("enemy", 2, 2)>>},
     lives \in 0..MaxLives}

DestroyerInit == Playing(DestroyerConfigs)

DestroyerNext ==
  /\ \/ TimeoutFire
     \/ KeyDownOnly
  /\ UNCHANGED fieldVars
  /\ UNCHANGED clock

SpecDestroyer == DestroyerInit /\ [][DestroyerNext]_vars

\* =============================================================== SpecTimer
\* The timer of a level on its own (level.timer is public): start, pause,
\* resume, stop and the fires of its interval.  `clock` follows the last
\* start(): its arguments, whether the timer was paused when it was called
\* (and by whom: the caller's pause() or the timer's own pause at time-up),
\* the fires and time-ups since, and whether the caller has since called
\* pause, resume or stop.
TimerConfigs == {LevelConfig(<< >>, 0, 0, NoSubscribers)}

TimerInit == GameInit(TimerConfigs)

\* The timer of level 1 as an operation finds it
TimerSeen ==
  [paused |-> levels[1].timer.paused, seconds |-> levels[1].timer.seconds,
   schedules |-> {iv \in intervals : iv.lvl = 1}]

ClockStart ==
  \E countdown \in BOOLEAN, s \in 0..MaxSeconds :
    /\ Becomes(TimerStart(World, 1, countdown, s))
    /\ clock' = [countdown |-> countdown, startSeconds |-> s, fires |-> 0, timeUps |-> 0,
                 caller |-> FALSE, pausedBy |-> clock.pausedBy,
                 wasPaused |-> IF levels[1].timer.paused THEN clock.pausedBy ELSE "no",
                 last |-> "start", before |-> TimerSeen]

Fired(w) ==
  /\ clock.fires < MaxFires
  /\ w.levels[1].timer.seconds \in (-MaxFires)..MaxFires
  /\ w.levels[1].events.timeUp <= MaxTimeUps
  /\ Becomes(w)
  /\ clock' = [clock EXCEPT !.fires = @ + 1, !.timeUps = @ + Len(w.obs.timeUps),
                            !.pausedBy = IF w.obs.timeUps # << >> THEN "timeUp" ELSE @,
                            !.last = "fire", !.before = TimerSeen]

ClockFire == \E iv \in intervals : Fired(IntervalCallback(World, iv))

ClockPause ==
  /\ Becomes(TimerPause(World, 1))
  /\ clock' = [clock EXCEPT !.caller = TRUE, !.pausedBy = "caller",
                            !.last = "pause", !.before = TimerSeen]

ClockResume ==
  /\ Becomes(TimerResume(World, 1))
  /\ clock' = [clock EXCEPT !.caller = TRUE, !.last = "resume", !.before = TimerSeen]

ClockStop ==
  /\ Becomes(TimerStop(World, 1))
  /\ clock' = [clock EXCEPT !.caller = TRUE, !.last = "stop", !.before = TimerSeen]

TimerNext ==
  /\ \/ ClockStart
     \/ ClockFire
     \/ ClockPause
     \/ ClockResume
     \/ ClockStop
  /\ UNCHANGED fieldVars

SpecTimer == TimerInit /\ [][TimerNext]_vars

\* ------------------------------------------------- claims about the field

Grid(f) == 0..(f.width * f.height - 1)

Adjacent(f, i, j) ==
  LET xi == i % f.width
      yi == i \div f.width
      xj == j % f.width
      yj == j \div f.width
  IN \/ (xi = xj /\ (yi - yj = 1 \/ yj - yi = 1))
     \/ (yi = yj /\ (xi - xj = 1 \/ xj - xi = 1))

\* The cells of `passable` that are 4-connected to a cell of `reached`
\* through cells of `passable`.
RECURSIVE Flood(_, _, _)
Flood(f, passable, reached) ==
  LET more == {j \in passable \ reached : \E i \in reached : Adjacent(f, i, j)}
  IN IF more = {} THEN reached ELSE Flood(f, passable, reached \cup more)

ReachFrom(f, passable, seeds) == Flood(f, passable, seeds \cap passable)

Seed(f, e) == e.y * f.width + e.x

Seeds(f, enemies) == {Seed(f, enemies[k]) : k \in DOMAIN enemies}

WasState(f, S) == {i \in Grid(f) : f.cells[i] \in S}

CountsMatch(f) ==
  \A s \in StoredStates : f.cellCount[s] = CountOf(f, s)

InBorder(f, t, i) ==
  LET x == i % f.width
      y == i \div f.width
  IN x < t \/ x >= f.width - t \/ y < t \/ y >= f.height - t

\* C1: in every reachable field state the per-state counts equal the number
\* of stored cells in each state, the three counts add up to width * height,
\* and claimedRatio() is a value in [0, 1].
C1_CountsAndRatio ==
  /\ CountsMatch(field)
  /\ field.cellCount[CLAIMED] + field.cellCount[UNCLAIMED] + field.cellCount[CLAIMING]
       = field.width * field.height
  /\ ClaimedRatio(field).den > 0
  /\ 0 <= ClaimedRatio(field).num
  /\ ClaimedRatio(field).num <= ClaimedRatio(field).den

\* C10: claimBorder(thickness) leaves exactly the cells within `thickness`
\* cells of an edge Claimed and every other cell as it was, writes no cell
\* outside the width x height grid, and keeps the array the size of the grid
\* and the counts equal to the cells.
C10_ClaimBorderExact ==
  fieldOp.op = "border" =>
    /\ \A i \in Grid(field) :
         field.cells[i] = IF InBorder(field, fieldOp.thickness, i)
                          THEN CLAIMED ELSE fieldOp.pre.cells[i]
    /\ DOMAIN field.cells \subseteq (Grid(field) \cup DOMAIN fieldOp.pre.cells)
    /\ field.length = fieldOp.pre.length
    /\ CountsMatch(fieldOp.pre) => CountsMatch(field)

\* The grid of the spec's scenarios: 5 x 5, border of thickness 1, the cells
\* of `trail` CLAIMING.
ScenarioField(trail) ==
  LET b == ClaimBorder(NewField(5, 5), 1)
  IN [b EXCEPT !.cells = [i \in DOMAIN b.cells |-> IF i \in trail THEN CLAIMING ELSE b.cells[i]],
               !.cellCount = [b.cellCount EXCEPT ![CLAIMING] = Cardinality(trail),
                                                 ![UNCLAIMED] = 9 - Cardinality(trail)]]

Interior5 == {6, 7, 8, 11, 12, 13, 16, 17, 18}

\* C2: after claim(enemies) a cell is Claimed iff it was Claimed or Claiming
\* before, or it cannot be reached from any enemy's cell through cells that
\* are not Claimed once the trail is sealed; every cell an enemy can reach is
\* Unclaimed (an enemy on a Claimed cell reaches nothing, the others still
\* do).  On the 5 x 5 bordered grid with one enemy at (2,2): with no trail no
\* interior cell is claimed; with the trail (2,1), (1,2) the cell (1,1) is
\* claimed and the enemy's region stays Unclaimed.
C2_ClaimIffUnreachable ==
  fieldOp.op = "claim" =>
    LET pre == fieldOp.pre
        open == WasState(pre, {UNCLAIMED})
        reach == ReachFrom(pre, open, Seeds(pre, fieldOp.enemies))
    IN /\ \A i \in Grid(field) :
            /\ (field.cells[i] = CLAIMED) <=>
                 (pre.cells[i] \in {CLAIMED, CLAIMING} \/ i \notin reach)
            /\ i \in reach => field.cells[i] = UNCLAIMED
       /\ (pre = ScenarioField({}) /\ fieldOp.enemies = <<[x |-> 2, y |-> 2]>>)
            => \A i \in Interior5 : field.cells[i] = UNCLAIMED
       /\ (pre = ScenarioField({7, 11}) /\ fieldOp.enemies = <<[x |-> 2, y |-> 2]>>)
            => /\ field.cells[6] = CLAIMED
               /\ \A i \in Interior5 \ {6, 7, 11} : field.cells[i] = UNCLAIMED

\* C2's case: claim() has run on the scenario grid with the trail (2,1), (1,2)
\* and the enemy at (2,2); (1,1) is claimed and (2,2) is not.
C2_Witness ==
  /\ fieldOp.op = "claim"
  /\ fieldOp.pre = ScenarioField({7, 11})
  /\ fieldOp.enemies = <<[x |-> 2, y |-> 2]>>
  /\ field.cells[6] = CLAIMED
  /\ field.cells[12] = UNCLAIMED

\* C3 as stated: after claim(), for every enemy, every cell that was
\* Unclaimed or Claiming and is reachable from the enemy's cell without
\* crossing a Claimed cell is still not Claimed, and every other cell that
\* was not Claimed is Claimed.
C3_Original ==
  fieldOp.op = "claim" =>
    LET pre == fieldOp.pre
        open == WasState(pre, {UNCLAIMED, CLAIMING})
        reachOf(k) == ReachFrom(pre, open, {Seed(pre, fieldOp.enemies[k])})
        reachAny == UNION {reachOf(k) : k \in DOMAIN fieldOp.enemies}
    IN /\ \A k \in DOMAIN fieldOp.enemies : \A i \in reachOf(k) :
            field.cells[i] # CLAIMED
       /\ \A i \in open \ reachAny : field.cells[i] = CLAIMED

\* C3 as amended: after claim(), for every enemy, every cell that was
\* Unclaimed and is reachable from the enemy's cell through cells that were
\* Unclaimed (crossing neither a Claimed nor a Claiming cell) is still
\* Unclaimed; every other cell that was not Claimed, every Claiming cell
\* included, is Claimed.
C3_ClaimAfterSeal ==
  fieldOp.op = "claim" =>
    LET pre == fieldOp.pre
        open == WasState(pre, {UNCLAIMED})
        reachOf(k) == ReachFrom(pre, open, {Seed(pre, fieldOp.enemies[k])})
        reachAny == UNION {reachOf(k) : k \in DOMAIN fieldOp.enemies}
    IN /\ \A k \in DOMAIN fieldOp.enemies : \A i \in reachOf(k) :
            field.cells[i] = UNCLAIMED
       /\ \A i \in WasState(pre, {UNCLAIMED, CLAIMING}) \ reachAny :
            field.cells[i] = CLAIMED

\* C3's case: a claim whose trail cell could be reached by an enemy before
\* the trail was sealed, with a region behind the trail that was claimed.
C3_Witness ==
  /\ fieldOp.op = "claim"
  /\ \E i \in WasState(fieldOp.pre, {CLAIMING}) :
       \E k \in DOMAIN fieldOp.enemies :
         i \in ReachFrom(fieldOp.pre, WasState(fieldOp.pre, {UNCLAIMED, CLAIMING}),
                         {Seed(fieldOp.pre, fieldOp.enemies[k])})
  /\ \E i \in WasState(fieldOp.pre, {UNCLAIMED}) : field.cells[i] = CLAIMED
  /\ \E i \in WasState(fieldOp.pre, {UNCLAIMED}) : field.cells[i] = UNCLAIMED

\* ------------------------------------------------- claims about the timer
Timer1 == levels[1].timer

Followed == clock.countdown /\ ~clock.caller

\* What the claim says of a countdown from s after n fires.
CountdownAsClaimed ==
  /\ clock.fires <= clock.startSeconds =>
       /\ Timer1.seconds = clock.startSeconds - clock.fires
       /\ clock.timeUps = 0
  /\ clock.fires > clock.startSeconds =>
       /\ clock.timeUps = 1
       /\ Timer1.paused
       /\ Timer1.seconds = -1
  /\ TimerToString(Timer1) >= 0
  /\ TimerToString(Timer1) = 1000 * (IF Timer1.seconds < 0 THEN 0 ELSE Timer1.seconds)

\* C7 as stated: after start(true, s) on a timer the caller has not left
\* paused, and with no pause / resume / stop by the caller since, s fires
\* leave seconds at 0 with no time-up, the next fire delivers the one
\* time-up and pauses, later fires change nothing, and the displayed
\* duration is max(0, seconds).
C7_Original == (Followed /\ clock.wasPaused # "caller") => CountdownAsClaimed

\* C7: the same, for a start() that found the timer not paused at all
\* (neither by the caller nor by an earlier time-up).
C7_Countdown == (Followed /\ clock.wasPaused = "no") => CountdownAsClaimed

C7_Witness ==
  /\ Followed
  /\ clock.wasPaused = "no"
  /\ clock.startSeconds = MaxSeconds
  /\ clock.fires = clock.startSeconds + 2
  /\ clock.timeUps = 1

\* The three states of the timer, by its fields: Paused is the paused flag
\* that start() tests, Running is an active schedule that is not paused,
\* Stopped is neither.  Every timer is in exactly one of them.
Schedules == {iv \in intervals : iv.lvl = 1}

Paused == Timer1.paused

Running == ~Timer1.paused /\ Schedules # {}

Stopped == ~Timer1.paused /\ Schedules = {}

\* start() on a timer that is not paused
StartedAfresh ==
  (clock.last = "start" /\ ~clock.before.paused) =>
    /\ Timer1.seconds = clock.startSeconds
    /\ Schedules = {[id |-> Timer1.interval, lvl |-> 1, countdown |-> clock.countdown]}
    /\ Running

\* start() on a paused timer
StartedPaused ==
  (clock.last = "start" /\ clock.before.paused) =>
    /\ ~Timer1.paused
    /\ Timer1.seconds = clock.before.seconds
    /\ Schedules = clock.before.schedules

\* C17: the timer is in exactly one of Stopped, Running and Paused; stop()
\* from any state leaves it Stopped with no active schedule; start() on a
\* timer that is not Paused sets the seconds and leaves exactly one
\* schedule; start() on a Paused timer only resumes, keeping the seconds and
\* the schedule.
C17_TimerStates ==
  /\ clock.last = "stop" => (Stopped /\ Schedules = {})
  /\ StartedAfresh
  /\ StartedPaused

\* ------------------------------------------------- claims about the level
\* The cells of field g are those of field f with every Claiming cell
\* Unclaimed.
TrailCleared(f, g) ==
  /\ g.width = f.width
  /\ g.height = f.height
  /\ g.length = f.length
  /\ DOMAIN g.cells = DOMAIN f.cells
  /\ \A i \in DOMAIN f.cells :
       g.cells[i] = IF f.cells[i] = CLAIMING THEN UNCLAIMED ELSE f.cells[i]

DieAsClaimed(d) ==
  /\ d.after.player.lives = d.before.player.lives - 1
  /\ d.after.player.speed = 0
  /\ d.after.player.x = d.before.defaultPlayerPosition.x
  /\ d.after.player.y = d.before.defaultPlayerPosition.y
  /\ TrailCleared(d.before.field, d.after.field)
  /\ d.after.enemies = d.before.enemies
  /\ d.after.events.die = d.before.events.die + 1
  /\ d.after.events.lose =
       d.before.events.lose + (IF d.after.player.lives < 0 THEN 1 ELSE 0)

\* C4: every die() takes one life, stops the player, puts it on the spawn,
\* turns the Claiming cells Unclaimed and no other cell, leaves the enemies
\* alone, sends one died notification, and a lost notification exactly
\* when the lives left are below 0.
C4_DieContract == \A i \in DOMAIN obs.dies : DieAsClaimed(obs.dies[i])

\* A death with a trail on the field that leaves the player with a life.
C4_Witness ==
  \E i \in DOMAIN obs.dies :
    /\ \E c \in DOMAIN obs.dies[i].before.field.cells :
         obs.dies[i].before.field.cells[c] = CLAIMING
    /\ obs.dies[i].before.player.speed = 1
    /\ obs.dies[i].after.player.lives = 0
    /\ obs.dies[i].after.events.lose = 0

\* C5: no level ever sends more than one won and more than one lost
\* notification.
C5_AtMostOnce ==
  \A l \in DOMAIN levels : levels[l].events.win <= 1 /\ levels[l].events.lose <= 1

TimeUpAsClaimed(u) ==
  /\ u.before.countdownTime # 0
  /\ u.after.events.lose = u.before.events.lose + 1
  /\ u.after.events.die = u.before.events.die
  /\ u.after.player.lives = u.before.player.lives
  /\ u.after.player.x = u.before.player.x
  /\ u.after.player.y = u.before.player.y
  /\ u.after.field = u.before.field

\* C8: a time-up of a level sends one lost notification and no died
\* notification and leaves the lives, the position of the player and the
\* field as they were; a level without a countdown never gets a time-up.
C8_TimeUpIsLoss ==
  /\ \A i \in DOMAIN obs.timeUps : TimeUpAsClaimed(obs.timeUps[i])
  /\ \A l \in DOMAIN levels : levels[l].countdownTime = 0 => levels[l].events.timeUp = 0

\* A time-up in the middle of play: the player is off its spawn with a trail
\* on the field.
C8_Witness ==
  \E i \in DOMAIN obs.timeUps :
    /\ obs.timeUps[i].before.player.y # obs.timeUps[i].before.defaultPlayerPosition.y
    /\ \E c \in DOMAIN obs.timeUps[i].before.field.cells :
         obs.timeUps[i].before.field.cells[c] = CLAIMING
    /\ obs.timeUps[i].after.events.lose = 1

\* ---------------------------------------------------- claims about the game
\* C6: no tick runs between the return of stop() or pause() and the next
\* run() or start(), and stop() leaves no interval that would still advance
\* a timer.
C6_NoTickAfterHalt ==
  /\ ~obs.tickWhileHalted
  /\ halted = "stop" => \A iv \in intervals : levels[iv.lvl].timer.paused

\* C9: no tick completes silently while the game has no ctx.
C9_NoSilentTick == ~obs.silentTick

\* ------------------------------------------- claims about claim() and win
Won(lv) ==
  CountOf(lv.field, CLAIMED) * lv.claimRatioWin.den
    > lv.claimRatioWin.num * (lv.field.width * lv.field.height)

ClaimAsClaimed(c) ==
  /\ c.after.field = Claim(c.before.field, c.before.enemies)
  /\ c.after.enemies = c.before.enemies
  /\ c.after.events.win = c.before.events.win + (IF Won(c.after) THEN 1 ELSE 0)

WinNotes == {i \in DOMAIN obs.notes : obs.notes[i].ev = "win"}

WinningClaims == {i \in DOMAIN obs.claims : Won(obs.claims[i].after)}

\* C11: claim() runs the field's claim with the enemies as they stand and
\* sends a won notification exactly when Claimed cells / (width * height)
\* is above the threshold; no operation sends a won notification but a
\* claim() that ends above the threshold.
C11_ClaimThenWin ==
  /\ \A i \in DOMAIN obs.claims : ClaimAsClaimed(obs.claims[i])
  /\ Cardinality(WinNotes) = Cardinality(WinningClaims)

\* A claim() that gains cells and still ends at or below the threshold,
\* the destroyer having lowered the ratio before.
C11_Witness ==
  \E i \in DOMAIN obs.claims :
    /\ ~Won(obs.claims[i].after)
    /\ CountOf(obs.claims[i].after.field, CLAIMED) > CountOf(obs.claims[i].before.field, CLAIMED)
    /\ obs.claims[i].after.events.win = obs.claims[i].before.events.win

\* --------------------------------------------- claims about entity updates
\* The collision of an update as the claim describes it: candidate by
\* candidate, at each the cell and then the entity on it.
AtCandidate(u, cand) ==
  LET currCell == GetCell(u.before.field, u.self.x, u.self.y)
      cell == GetCell(u.before.field, cand.x, cand.y)
      others == {k \in 1..EntityCount(u.before) :
                   /\ EntityAt(u.before, k).x = cand.x
                   /\ EntityAt(u.before, k).y = cand.y}
      found == IF others = {} THEN 0 ELSE MinOf(others)
  IN IF cell # currCell THEN [kind |-> "cell", x |-> cand.x, y |-> cand.y]
     ELSE IF found # 0 /\ ~(u.target = u.ref.lvl /\ found = u.ref.k)
       THEN [kind |-> "entity", x |-> cand.x, y |-> cand.y]
     ELSE [kind |-> "none", x |-> 0, y |-> 0]

PerCandidate(u) ==
  LET nextX == u.self.x + u.self.dx * u.self.speed
      nextY == u.self.y + u.self.dy * u.self.speed
      first == AtCandidate(u, [x |-> nextX, y |-> u.self.y])
      second == AtCandidate(u, [x |-> u.self.x, y |-> nextY])
      third == AtCandidate(u, [x |-> nextX, y |-> nextY])
  IN IF first.kind # "none" THEN first
     ELSE IF second.kind # "none" THEN second
     ELSE third

\* C12: the collision an update hands to onCollision is the one of the
\* first candidate, in the order (nextX, currY), (currX, nextY),
\* (nextX, nextY), at which the cell lookup or else the entity lookup
\* reports a collision.
C12_FirstCandidateWins ==
  \A i \in DOMAIN obs.updates :
    /\ obs.updates[i].c.kind = PerCandidate(obs.updates[i]).kind
    /\ obs.updates[i].c.kind # "none" =>
         /\ obs.updates[i].c.x = PerCandidate(obs.updates[i]).x
         /\ obs.updates[i].c.y = PerCandidate(obs.updates[i]).y

\* The enemy updates of a step that found a collision
EnemyCollisions ==
  {i \in DOMAIN obs.updates : /\ obs.updates[i].self.kind # "player"
                              /\ obs.updates[i].c.kind # "none"}

\* The collision called die(): a Claiming cell or the player
Deadly(c) ==
  \/ c.kind = "cell" /\ c.collidedCellState = CLAIMING
  \/ c.kind = "entity" /\ c.collidedEntity = 1

Reflected(u) ==
  /\ u.selfAfter.x = u.self.x
  /\ u.selfAfter.y = u.self.y
  /\ u.selfAfter.dx = (IF u.c.x # u.self.x THEN -u.self.dx ELSE u.self.dx)
  /\ u.selfAfter.dy = (IF u.c.y # u.self.y THEN -u.self.dy ELSE u.self.dy)
  /\ u.selfAfter.speed = u.self.speed

\* C13: an enemy whose update finds a collision keeps its position and has
\* its direction reflected per axis: the x component is negated exactly when
\* the colliding candidate differs from the enemy's cell in x, the y
\* component exactly when it differs in y; also when the collision calls
\* die().
C13_EnemyReflects ==
  \A i \in EnemyCollisions : Reflected(obs.updates[i])

\* An enemy collision that called die() and reflected the x component only.
C13_Witness ==
  \E i \in EnemyCollisions :
    /\ Deadly(obs.updates[i].c)
    /\ obs.dies # << >>
    /\ obs.updates[i].selfAfter.dx = -obs.updates[i].self.dx
    /\ obs.updates[i].selfAfter.dy = obs.updates[i].self.dy

\* The update changes the field in the one cell (x, y), from Claimed to
\* Unclaimed, and the counts follow.
Reverted(before, after, x, y) ==
  /\ after.cells = [before.cells EXCEPT ![EfficientIndex(before, x, y)] = UNCLAIMED]
  /\ after.cellCount = [before.cellCount EXCEPT ![CLAIMED] = @ - 1, ![UNCLAIMED] = @ + 1]
  /\ after.length = before.length
  /\ \A s \in 0..3 : after.cellCount[s] = CountOf(after, s)

ClaimedKept(before, after) ==
  \A i \in DOMAIN before.cells : before.cells[i] = CLAIMED => after.cells[i] = CLAIMED

HitsClaimed(u) == u.c.kind = "cell" /\ u.c.collidedCellState = CLAIMED

\* C14: a destroyer whose collision candidate is a Claimed cell leaves that
\* cell Unclaimed, the counts follow and no other cell is changed; the
\* update of a plain enemy leaves every Claimed cell Claimed.
C14_DestroyerReverts ==
  \A i \in DOMAIN obs.updates :
    /\ (obs.updates[i].self.kind = "destroyer" /\ HitsClaimed(obs.updates[i])) =>
         Reverted(obs.updates[i].before.field, obs.updates[i].after.field,
                  obs.updates[i].c.x, obs.updates[i].c.y)
    /\ obs.updates[i].self.kind = "enemy" =>
         ClaimedKept(obs.updates[i].before.field, obs.updates[i].after.field)

\* In one tick a destroyer reverts a Claimed cell and a plain enemy bounces
\* off another.
C14_Witness ==
  /\ \E i \in DOMAIN obs.updates :
       obs.updates[i].self.kind = "destroyer" /\ HitsClaimed(obs.updates[i])
  /\ \E i \in DOMAIN obs.updates :
       obs.updates[i].self.kind = "enemy" /\ HitsClaimed(obs.updates[i])

\* The player updates of a step in which the player, on a cell that is not
\* Claimed, collided with a Claimed candidate
Closings ==
  {i \in DOMAIN obs.updates :
     /\ obs.updates[i].self.kind = "player"
     /\ HitsClaimed(obs.updates[i])
     /\ GetCell(obs.updates[i].before.field,
                obs.updates[i].self.x, obs.updates[i].self.y) # CLAIMED}

Sealed(u) ==
  /\ u.selfAfter.x = u.c.x
  /\ u.selfAfter.y = u.c.y
  /\ ~u.selfAfter.claiming
  /\ CountOf(u.after.field, CLAIMING) = 0
  /\ GetCell(u.after.field, u.self.x, u.self.y) = CLAIMED
  /\ \A i \in DOMAIN u.before.field.cells :
       u.before.field.cells[i] = CLAIMING => u.after.field.cells[i] = CLAIMED

\* C15: after a player update in which the player, on a cell that is not
\* Claimed, collides with a Claimed candidate, the player is on the
\* candidate, claiming is false, no cell is Claiming, and the vacated cell
\* and every cell that was Claiming before are Claimed.
C15_TrailSealed ==
  \A i \in Closings : Sealed(obs.updates[i])

\* The player closes a trail of at least one Claiming cell behind the cell
\* it leaves.
C15_Witness ==
  \E i \in Closings :
    /\ obs.updates[i].self.claiming
    /\ CountOf(obs.updates[i].before.field, CLAIMING) > 0
    /\ GetCell(obs.updates[i].before.field,
               obs.updates[i].self.x, obs.updates[i].self.y) = UNCLAIMED

\* ------------------------------------------- claims about notifications
\* A died notification that a subscriber received
IsDied(n) == n.ev = "die" /\ n.level.subs.die # "none"

\* The level as the claim says the subscriber of a died notification finds it
ResetDone(lv) ==
  /\ lv.player.speed = 0
  /\ lv.player.x = lv.defaultPlayerPosition.x
  /\ lv.player.y = lv.defaultPlayerPosition.y
  /\ CountOf(lv.field, CLAIMING) = 0

\* Each die() call of a step sent a died notification that found the lives
\* decremented, and a lost notification follows a died one.
DiedThenLost ==
  /\ \A i \in DOMAIN obs.dies :
       /\ Len(SelectSeq(obs.notes, LAMBDA n : n.ev = "die")) >= i
       /\ SelectSeq(obs.notes, LAMBDA n : n.ev = "die")[i].level.player.lives
            = obs.dies[i].before.player.lives - 1
  /\ obs.timeUps = << >> =>
       \A j \in DOMAIN obs.notes :
         obs.notes[j].ev = "lose" =>
           \E i \in 1..(j - 1) : obs.notes[i].ev = "die"

\* C16: when the died notification of a die() call reaches a subscriber the
\* lives are decremented, the player's speed is 0, the player is at the
\* default spawn and no cell is Claiming; a lost notification of a die()
\* call comes after a died notification.
C16_DiedAfterReset ==
  /\ \A i \in DOMAIN obs.notes :
       IsDied(obs.notes[i]) => ResetDone(obs.notes[i].level)
  /\ DiedThenLost

\* ------------------------------------------------ claims about the tick
\* C18: every entity is updated against the level it belongs to, also when
\* a notification handler replaced the game's level earlier in the tick:
\* the entities of the old level are not updated against the new one.
C18_OwnLevelOnly ==
  \A i \in DOMAIN obs.updates : obs.updates[i].target = obs.updates[i].ref.lvl

\* C19: at most one tick timeout is pending.
C19_OneTimeout == Cardinality(timeouts) <= 1

\* ------------------------------------------------- claims about bounds
Inside(f, x, y) == x \in 0..(f.width - 1) /\ y \in 0..(f.height - 1)

\* The grid holds exactly the cells of width x height, counted as stored.
GridIntact(f) ==
  /\ DOMAIN f.cells = 0..(f.width * f.height - 1)
  /\ f.length = f.width * f.height
  /\ \A s \in 0..3 : f.cellCount[s] = CountOf(f, s)

\* The cell writes of an update: the trail and the final segment at the
\* cell the player leaves, the reversion at the destroyer's candidate.
WritesInside(u) ==
  /\ u.self.kind = "player" => Inside(u.before.field, u.self.x, u.self.y)
  /\ (u.self.kind = "destroyer" /\ HitsClaimed(u)) => Inside(u.before.field, u.c.x, u.c.y)

\* C20: on the played level (non-empty field, entities and spawn in bounds,
\* directions in {-1,0,1}, speed 0 or 1) every entity stays inside
\* [0,width) x [0,height) through ticks, direction commands, deaths and
\* claims, and no cell write is made outside the grid.
C20_InBounds ==
  /\ \A k \in 1..EntityCount(levels[1]) :
       Inside(levels[1].field, EntityAt(levels[1], k).x, EntityAt(levels[1], k).y)
  /\ GridIntact(levels[1].field)
  /\ \A i \in DOMAIN obs.updates :
       /\ WritesInside(obs.updates[i])
       /\ Inside(obs.updates[i].after.field, obs.updates[i].selfAfter.x,
                 obs.updates[i].selfAfter.y)

\* The player is stopped at the edge of the grid, on a border cell the
\* destroyer had reverted.
C20_Witness ==
  \E i \in DOMAIN obs.updates :
    /\ obs.updates[i].self.kind = "player"
    /\ obs.updates[i].c.kind = "cell"
    /\ obs.updates[i].c.collidedCellState = OUT_OF_BOUNDS
    /\ obs.updates[i].c.currentCellState = UNCLAIMED
    /\ obs.updates[i].selfAfter.speed = 0

\* -------------------------------------------------- claims about the trail
\* A level with a Claiming cell has a claiming player.
TrailOwned(lv) == CountOf(lv.field, CLAIMING) > 0 => lv.player.claiming

\* The player ran into its own trail in this step.
OwnTrailHit(u) ==
  /\ u.self.kind = "player"
  /\ u.c.kind = "cell"
  /\ u.c.collidedCellState = CLAIMING

\* C21: between updates, a level with a Claiming cell has player.claiming
\* true; no Claiming cell is left by a completed claim() or by a death,
\* whether the player or an enemy caused it.
C21_TrailHasOwner ==
  /\ \A l \in DOMAIN levels : TrailOwned(levels[l])
  /\ \A i \in DOMAIN obs.claims : CountOf(obs.claims[i].after.field, CLAIMING) = 0
  /\ \A i \in DOMAIN obs.dies : CountOf(obs.dies[i].after.field, CLAIMING) = 0
  /\ \A i \in DOMAIN obs.updates :
       (obs.updates[i].self.kind = "player" /\ obs.updates[i].target = obs.updates[i].ref.lvl)
         => TrailOwned([field |-> obs.updates[i].after.field,
                        player |-> obs.updates[i].selfAfter])

\* The player ran into a trail of Claiming cells and died; claiming is
\* false and no cell is Claiming.
C21_Witness ==
  /\ obs.dies # << >>
  /\ \E i \in DOMAIN obs.updates :
       /\ OwnTrailHit(obs.updates[i])
       /\ CountOf(obs.updates[i].before.field, CLAIMING) > 0
       /\ ~obs.updates[i].selfAfter.claiming
       /\ CountOf(obs.updates[i].after.field, CLAIMING) = 0
  /\ ~levels[1].player.claiming

\* ------------------------------------------- claims about the game's state
\* How many of isRunning(), isPaused(), isStopped() are true
StatesTrue ==
  Cardinality({st \in {"running", "paused", "stopped"} :
                 \/ st = "running" /\ IsRunning(World)
                 \/ st = "paused" /\ IsPaused(World)
                 \/ st = "stopped" /\ IsStopped(World)})

\* C22: exactly one of isRunning(), isPaused(), isStopped() is true, and
\* isStopped() is true once stop() has returned, also after a pause().
C22_OneGameState ==
  /\ StatesTrue = 1
  /\ halted = "stop" => IsStopped(World)

\* C23: while the game is running and the level's time-up has not fired,
\* the level's timer is not paused, also after pause() followed by run().
C23_RunningTimerRuns ==
  (/\ IsRunning(World)
   /\ ~IsPaused(World)
   /\ levels[game.level].events.timeUp = 0)
    => ~levels[game.level].timer.paused

====
